---- MODULE Spec2Model ----
(***************************************************************************)
(* State-machine model of pykvstores.PyArrowPlasmaKVStore                  *)
(* (src/pykvstores/pyarrow_plasma_kvstore.py): one store instance, the     *)
(* plasma_store child process it owns, the socket file, and the objects    *)
(* held by that process.  The pyarrow.plasma client is modelled at the     *)
(* interface the source relies on: put raises PlasmaObjectExists or        *)
(* PlasmaStoreFull, get raises PlasmaObjectNotFound, delete ignores        *)
(* missing ids, and every request on a client whose store process is gone  *)
(* fails at the protocol layer.                                            *)
(***************************************************************************)
EXTENDS Integers, Sequences, FiniteSets, TLC

(***************************************************************************)
(* Bounds of the model                                                     *)
(***************************************************************************)
\* values are 1..MaxVal; a value v stands for a payload of v size units
MaxVal == 2
\* longest key list / value list handed to a batch operation
MaxBatch == 2
\* number of plasma clients one run may attach
MaxClients == 2
\* available shared memory (os.statvfs("/dev/shm")), in size units
AvailShm == 2

(***************************************************************************)
(* Keys and hashing                                                        *)
(***************************************************************************)
\* A key is a typed Python value: text and bytes carry their byte codes in
\* `text`, integers carry their number in `num`.
KStr7 == [type |-> "str", text |-> <<55>>, num |-> 0]
KBytesA == [type |-> "bytes", text |-> <<97>>, num |-> 0]
KInt7 == [type |-> "int", text |-> <<>>, num |-> 7]
KFloat7 == [type |-> "float", text |-> <<>>, num |-> 7]

Keys == {KStr7, KBytesA, KInt7, KFloat7}

Values == 1..MaxVal

\* Python's None as a returned value
None == 0

\* str(n) for an integer n, as ASCII codes: decimal digits, '-' for negatives
RECURSIVE Digits(_)
Digits(n) == IF n < 10 THEN <<48 + n>> ELSE Append(Digits(n \div 10), 48 + (n % 10))

IntToStr(n) == IF n < 0 THEN <<45>> \o Digits(0 - n) ELSE Digits(n)

\* str.encode() on ASCII text: one byte per code point
StrEncode(text) == [i \in 1..Len(text) |-> text[i] % 256]

\* blake2b(data, digest_size).digest(), idealised as collision free: the
\* digest is determined by, and determines, (data, digest_size)
blake2b(data, digest_size) == [size |-> digest_size, data |-> data]

\* Result of hashing a key of an unsupported type: hash_value is unbound
Unbound == [size |-> 0, data |-> <<>>]

DigestSize == 20

gen_hash(key, digest_size) ==
    IF key.type = "str" THEN blake2b(StrEncode(key.text), digest_size)
    ELSE IF key.type = "bytes" THEN blake2b(key.text, digest_size)
    ELSE IF key.type = "int" THEN blake2b(StrEncode(IntToStr(key.num)), digest_size)
    ELSE Unbound

\* gen_hash raises (UnboundLocalError) for a key that is not str, bytes or int
HashRaises(key) == key.type \notin {"str", "bytes", "int"}

gen_object_id(key) == gen_hash(key, DigestSize)

(***************************************************************************)
(* State                                                                   *)
(***************************************************************************)
VARIABLES
    phase,              \* "new" before a store is constructed, then "ready" (a
                        \* PyArrowPlasmaKVStore), "ray" (a RayKVStore) or "failed"
    size,               \* self.size: capacity handed to plasma_store -m
    __created,          \* self.__created
    plasma_store_proc,  \* self.plasma_store_proc: "None" or "Popen"
    client,             \* self.client: None or the id of a plasma client
    _connected,         \* self._connected
    procRunning,        \* the plasma_store child process is running
    socketFile,         \* a file exists at self.socket_path
    socketDir,          \* the directory `path` of the socket file exists
    store,              \* objects held by the store process: ObjectID -> [key, value]
    attached,           \* ids of the clients attached to the running store process
    nextClient,         \* id the next plasma.connect() hands out
    kvstore,            \* RayKVActor.kvstore: the dict of a RayKVStore's actor
    last,               \* the last call made on the instance and its outcome
    link,               \* history: how the latest connect() or successful
                        \* disconnect() ended: "never", "connected", "failed"
                        \* or "disconnected"
    everCreated,        \* history: a store process has been created for this
                        \* instance at some time
    gen                 \* the generator the latest __iter__ call handed back

inst == <<size, __created, plasma_store_proc, client, _connected, kvstore>>
proc == <<procRunning, socketFile, store, attached>>
vars == <<phase, size, __created, plasma_store_proc, client, _connected,
          procRunning, socketFile, socketDir, store, attached, nextClient, kvstore,
          last, link, everCreated, gen>>

EmptyStore == <<>>

\* a generator of __iter__: "created" until its first item is asked for, then
\* "running" over the pairs it fetched (items: those still to come); atCall
\* and yielded are history: the pairs stored when __iter__ was called, the
\* pairs handed out so far.  NoGen: no generator, or one that has ended.
Generator(state, atCall, items, yielded) ==
    [state |-> state, atCall |-> atCall, items |-> items, yielded |-> yielded]

NoGen == Generator("none", <<>>, <<>>, <<>>)

\* one call and its outcome: res is "ok" or the name of the exception raised
Call(op, isList, ks, vs, res, ret) ==
    [op |-> op, isList |-> isList, keys |-> ks, vals |-> vs, res |-> res, ret |-> ret]

NoCall == Call("none", FALSE, <<>>, <<>>, "ok", None)

\* no call is in progress: the outcome of the previous one has been taken
Idle == last = NoCall

\* the size argument of the constructor: omitted (None) or an integer
SizeArgs == {[given |-> FALSE, val |-> 0]} \cup
            {[given |-> TRUE, val |-> n] : n \in 0..(AvailShm + 1)}

\* __check_size: the capacity to use, or -1 when it raises ValueError
SizeTooLarge == -1

check_size(sizeArg) ==
    IF sizeArg.given /\ sizeArg.val # 0
    THEN (IF sizeArg.val <= AvailShm THEN sizeArg.val ELSE SizeTooLarge)
    ELSE (AvailShm * 70) \div 100

Init ==
    /\ phase = "new"
    /\ size = 0
    /\ __created = FALSE
    /\ plasma_store_proc = "None"
    /\ client = None
    /\ _connected = FALSE
    /\ procRunning = FALSE
    /\ socketDir \in BOOLEAN
    /\ socketFile \in {f \in BOOLEAN : f => socketDir}
    /\ store = EmptyStore
    /\ attached = {}
    /\ nextClient = 1
    /\ kvstore = EmptyStore
    /\ last = NoCall
    /\ link = "never"
    /\ everCreated = FALSE
    /\ gen = NoGen

(***************************************************************************)
(* Life cycle: the store process and the connection                        *)
(***************************************************************************)
\* __initialize_plasma_store_in_background and the assignments of
\* create_plasma_store that follow it; started = the child is still running
\* after the grace period
initialize_plasma_store(started) ==
    /\ procRunning' = started
    /\ socketFile' = started
    /\ store' = EmptyStore
    /\ attached' = {}
    /\ plasma_store_proc' = IF started THEN "Popen" ELSE plasma_store_proc
    /\ __created' = started
    /\ everCreated' = (everCreated \/ started)

\* __init__(path, name, size, create); the call is recorded with its size
\* argument: isList tells a given size from an omitted one, vals holds it
Construct(sizeArg, create, started) ==
    /\ Idle
    /\ phase = "new"
    /\ socketDir' = TRUE
    /\ client' = None
    /\ _connected' = FALSE
    /\ UNCHANGED <<nextClient, kvstore, link, gen>>
    /\ IF check_size(sizeArg) = SizeTooLarge
       THEN /\ phase' = "failed"
            /\ last' = Call("init", sizeArg.given, <<>>, <<sizeArg.val>>, "ValueError", None)
            /\ UNCHANGED <<size, __created, plasma_store_proc, proc, everCreated>>
       ELSE /\ size' = check_size(sizeArg)
            /\ IF create
               THEN /\ initialize_plasma_store(started)
                    /\ phase' = IF started THEN "ready" ELSE "failed"
                    /\ last' = Call("init", sizeArg.given, <<>>, <<sizeArg.val>>,
                                    IF started THEN "ok" ELSE "RuntimeError", None)
               ELSE /\ phase' = "ready"
                    /\ last' = Call("init", sizeArg.given, <<>>, <<sizeArg.val>>, "ok", None)
                    /\ UNCHANGED <<__created, plasma_store_proc, proc, everCreated>>

\* variant of create_plasma_store that starts a store process whether or not
\* one has been created
create_plasma_store_unguarded(started) ==
    /\ Idle
    /\ phase = "ready"
    /\ initialize_plasma_store(started)
    /\ last' = Call("create_plasma_store", FALSE, <<>>, <<>>,
                    IF started THEN "ok" ELSE "RuntimeError", None)
    /\ UNCHANGED <<phase, size, client, _connected, nextClient, kvstore, link, socketDir, gen>>

create_plasma_store(started) ==
    /\ Idle
    /\ phase = "ready"
    /\ IF ~__created
       THEN /\ initialize_plasma_store(started)
            /\ last' = Call("create_plasma_store", FALSE, <<>>, <<>>,
                            IF started THEN "ok" ELSE "RuntimeError", None)
       ELSE /\ last' = Call("create_plasma_store", FALSE, <<>>, <<>>, "RuntimeError", None)
            /\ UNCHANGED <<__created, plasma_store_proc, proc, everCreated>>
    /\ UNCHANGED <<phase, size, client, _connected, nextClient, kvstore, link, socketDir, gen>>

\* variant of the body of cleanup() that leaves the socket file in place
terminate_keep_socket ==
    /\ procRunning' = FALSE
    /\ store' = EmptyStore
    /\ attached' = {}
    /\ plasma_store_proc' = "None"
    /\ __created' = FALSE
    /\ UNCHANGED socketFile

\* the body of cleanup() when the store has been created
terminate_and_remove ==
    /\ procRunning' = FALSE
    /\ store' = EmptyStore
    /\ attached' = {}
    /\ plasma_store_proc' = "None"
    /\ __created' = FALSE
    /\ socketFile' = FALSE

\* variant of cleanup that leaves self.__created set
cleanup_keeps_created ==
    /\ Idle
    /\ phase = "ready"
    /\ IF __created
       THEN /\ procRunning' = FALSE
            /\ store' = EmptyStore
            /\ attached' = {}
            /\ plasma_store_proc' = "None"
            /\ socketFile' = FALSE
            /\ last' = Call("cleanup", FALSE, <<>>, <<>>, "ok", None)
            /\ UNCHANGED __created
       ELSE /\ last' = Call("cleanup", FALSE, <<>>, <<>>, "RuntimeError", None)
            /\ UNCHANGED <<__created, plasma_store_proc, proc>>
    /\ UNCHANGED <<phase, size, client, _connected, nextClient, kvstore, link, everCreated, socketDir, gen>>

cleanup ==
    /\ Idle
    /\ phase = "ready"
    /\ IF __created
       THEN /\ terminate_and_remove
            /\ last' = Call("cleanup", FALSE, <<>>, <<>>, "ok", None)
       ELSE /\ last' = Call("cleanup", FALSE, <<>>, <<>>, "RuntimeError", None)
            /\ UNCHANGED <<__created, plasma_store_proc, proc>>
    /\ UNCHANGED <<phase, size, client, _connected, nextClient, kvstore, link, everCreated, socketDir, gen>>

\* variant of connect that turns away an instance that already holds a client
connect_once ==
    /\ Idle
    /\ phase = "ready"
    /\ nextClient <= MaxClients
    /\ IF __created /\ client = None
       THEN IF procRunning /\ socketFile
            THEN /\ client' = nextClient
                 /\ nextClient' = nextClient + 1
                 /\ attached' = attached \cup {nextClient}
                 /\ _connected' = TRUE
                 /\ last' = Call("connect", FALSE, <<>>, <<>>, "ok", None)
                 /\ link' = "connected"
                 /\ UNCHANGED <<__created, plasma_store_proc, procRunning, socketFile, store>>
            ELSE /\ terminate_and_remove
                 /\ last' = Call("connect", FALSE, <<>>, <<>>, "ConnectionError", None)
                 /\ link' = "failed"
                 /\ UNCHANGED <<client, _connected, nextClient>>
       ELSE /\ last' = Call("connect", FALSE, <<>>, <<>>, "ConnectionError", None)
            /\ link' = "failed"
            /\ UNCHANGED <<__created, plasma_store_proc, client, _connected, proc, nextClient>>
    /\ UNCHANGED <<phase, size, kvstore, everCreated, socketDir, gen>>

\* plasma.connect(socket_path) succeeds when a store process listens on the socket
connect ==
    /\ Idle
    /\ phase = "ready"
    /\ nextClient <= MaxClients
    /\ IF __created
       THEN IF procRunning /\ socketFile
            THEN /\ client' = nextClient
                 /\ nextClient' = nextClient + 1
                 /\ attached' = attached \cup {nextClient}
                 /\ _connected' = TRUE
                 /\ last' = Call("connect", FALSE, <<>>, <<>>, "ok", None)
                 /\ link' = "connected"
                 /\ UNCHANGED <<__created, plasma_store_proc, procRunning, socketFile, store>>
            ELSE /\ terminate_and_remove
                 /\ last' = Call("connect", FALSE, <<>>, <<>>, "ConnectionError", None)
                 /\ link' = "failed"
                 /\ UNCHANGED <<client, _connected, nextClient>>
       ELSE /\ last' = Call("connect", FALSE, <<>>, <<>>, "ConnectionError", None)
            /\ link' = "failed"
            /\ UNCHANGED <<__created, plasma_store_proc, client, _connected, proc, nextClient>>
    /\ UNCHANGED <<phase, size, kvstore, everCreated, socketDir, gen>>

\* the client handle still talks to a running store process
ClientLive == client \in attached

\* disconnect(); detached = client.disconnect() returned without raising,
\* which it always does on a live client
disconnect(detached) ==
    /\ Idle
    /\ phase = "ready"
    /\ IF ~_connected
       THEN /\ last' = Call("disconnect", FALSE, <<>>, <<>>, "ConnectionError", None)
            /\ UNCHANGED <<_connected, attached, link>>
       ELSE IF ClientLive \/ detached
            THEN /\ attached' = attached \ {client}
                 /\ _connected' = FALSE
                 /\ last' = Call("disconnect", FALSE, <<>>, <<>>, "ok", None)
                 /\ link' = "disconnected"
            ELSE /\ last' = Call("disconnect", FALSE, <<>>, <<>>, "ConnectionError", None)
                 /\ UNCHANGED <<_connected, attached, link>>
    /\ UNCHANGED <<phase, size, __created, plasma_store_proc, client,
                   procRunning, socketFile, store, nextClient, kvstore, everCreated,
                   socketDir, gen>>

\* the store process exits on its own; nothing in the instance notices
ProcessDies ==
    /\ Idle
    /\ procRunning
    /\ procRunning' = FALSE
    /\ store' = EmptyStore
    /\ attached' = {}
    /\ UNCHANGED <<phase, inst, socketFile, nextClient, last, link, everCreated,
                   socketDir, gen>>

\* the ValueErrors of the data operations, told apart by their message
StoreFull == "ValueError: store is full"

LengthMismatch == "ValueError: keys and values should be of same length"

\* the argument lists the batch operations are tried with
SeqsUpTo(S, n) == UNION {[1..m -> S] : m \in 0..n}

KeyLists == SeqsUpTo(Keys, MaxBatch)

ValueLists == SeqsUpTo(Values, MaxBatch)

(***************************************************************************)
(* RayKVStore (src/pykvstores/ray_kvstore.py): the store and its actor's   *)
(* dict.  Calls on the actor run in the order they are made.               *)
(***************************************************************************)
\* the identity of a key in a Python dict: equal numbers are one key
DictKey(key) ==
    IF key.type \in {"int", "float"} THEN <<"number", <<key.num>>>>
    ELSE <<key.type, key.text>>

\* RayKVStore.__init__: ray.init and a fresh actor
RayConstruct ==
    /\ Idle
    /\ phase = "new"
    /\ phase' = "ray"
    /\ kvstore' = EmptyStore
    /\ last' = Call("ray_init", FALSE, <<>>, <<>>, "ok", None)
    /\ UNCHANGED <<size, __created, plasma_store_proc, client, _connected, proc, nextClient,
                   link, everCreated, socketDir, gen>>

\* a call on a RayKVStore: only the actor's dict can change
RayOp(op, ks, vs, kv, res, ret) ==
    /\ Idle
    /\ phase = "ray"
    /\ kvstore' = kv
    /\ last' = Call(op, TRUE, ks, vs, res, ret)
    /\ UNCHANGED <<phase, size, __created, plasma_store_proc, client, _connected,
                   proc, nextClient, link, everCreated, socketDir, gen>>

\* RayKVActor.set: self.kvstore[key] = ray.put(value)
actor_set(kv, key, value) ==
    [d \in DOMAIN kv \cup {DictKey(key)} |-> IF d = DictKey(key) THEN value ELSE kv[d]]

\* RayKVActor.set_multi: for key, value in zip(keys, values)
RECURSIVE actor_set_multi(_, _, _, _)
actor_set_multi(kv, ks, vs, i) ==
    IF i > Len(ks) \/ i > Len(vs) THEN kv
    ELSE actor_set_multi(actor_set(kv, ks[i], vs[i]), ks, vs, i + 1)

\* RayKVStore.__setitem__
RaySetItem(key, value) ==
    RayOp("ray_setitem", <<key>>, <<value>>, actor_set(kvstore, key, value), "ok", None)

\* RayKVStore.__getitem__: the value, None for a missing key
RayGetItem(key) ==
    RayOp("ray_getitem", <<key>>, <<>>, kvstore, "ok",
          IF DictKey(key) \in DOMAIN kvstore THEN kvstore[DictKey(key)] ELSE None)

\* RayKVStore.__delitem__: a missing key is ignored
RayDelItem(key) ==
    RayOp("ray_delitem", <<key>>, <<>>,
          [d \in DOMAIN kvstore \ {DictKey(key)} |-> kvstore[d]], "ok", None)

\* RayKVStore.set_multi
RaySetMulti(ks, vs) ==
    IF Len(ks) # Len(vs)
    THEN RayOp("ray_set_multi", ks, vs, kvstore, LengthMismatch, None)
    ELSE RayOp("ray_set_multi", ks, vs, actor_set_multi(kvstore, ks, vs, 1), "ok", None)

(***************************************************************************)
(* The plasma client, as the source uses it                                *)
(***************************************************************************)
\* the object client.put([key, value], object_id) stores
Obj(key, value) == [key |-> key, value |-> value]

\* data_size + metadata_size of a stored object
ObjSize(obj) == obj.value

RECURSIVE SumSizes(_, _)
SumSizes(st, ids) ==
    IF ids = {} THEN 0
    ELSE LET id == CHOOSE x \in ids : TRUE
         IN ObjSize(st[id]) + SumSizes(st, ids \ {id})

\* memory taken by the objects client.list() reports
Used(st) == SumSizes(st, DOMAIN st)

\* client.put: PlasmaObjectExists if the id is taken, PlasmaStoreFull if the
\* object does not fit, otherwise the object is stored
client_put(st, key, value, object_id) ==
    IF object_id \in DOMAIN st THEN [store |-> st, res |-> "PlasmaObjectExists"]
    ELSE IF Used(st) + ObjSize(Obj(key, value)) > size
         THEN [store |-> st, res |-> "PlasmaStoreFull"]
         ELSE [store |-> [o \in DOMAIN st \cup {object_id} |->
                             IF o = object_id THEN Obj(key, value) ELSE st[o]],
               res |-> "ok"]

\* client.delete(object_ids): ids that are not stored are ignored
client_delete(st, object_ids) == [o \in DOMAIN st \ object_ids |-> st[o]]

\* the order in which client.list() enumerates the stored ids
RECURSIVE ListOrder(_)
ListOrder(ids) ==
    IF ids = {} THEN <<>>
    ELSE LET id == CHOOSE x \in ids : TRUE
         IN <<id>> \o ListOrder(ids \ {id})

\* client.get(list(client.list().keys())): the stored [key, value] pairs
StoredPairs(st) == [i \in 1..Cardinality(DOMAIN st) |-> st[ListOrder(DOMAIN st)[i]]]

(***************************************************************************)
(* Outcome of the data operations: the store afterwards, "ok" or the       *)
(* exception raised, and the value returned                                *)
(***************************************************************************)
Outcome(st, res, ret) == [store |-> st, res |-> res, ret |-> ret]

\* check_connected, then the failures every request shares: an unhashable
\* key, a client whose store process is gone
Gate(st, hashed, body) ==
    IF ~_connected THEN Outcome(st, "ConnectionError", None)
    ELSE IF \E k \in hashed : HashRaises(k) THEN Outcome(st, "UnboundLocalError", None)
    ELSE IF ~ClientLive THEN Outcome(st, "IOError", None)
    ELSE body

\* variant of __setitem__ that clears the key's ObjectID before the put
setitem_delete_first(st, key, value) ==
    Gate(st, {key},
         LET deleted == client_delete(st, {gen_object_id(key)})
             r == client_put(deleted, key, value, gen_object_id(key))
         IN IF r.res = "PlasmaStoreFull" THEN Outcome(deleted, StoreFull, None)
            ELSE Outcome(r.store, "ok", None))

setitem(st, key, value) ==
    Gate(st, {key},
         LET r == client_put(st, key, value, gen_object_id(key))
         IN IF r.res = "PlasmaStoreFull" THEN Outcome(st, StoreFull, None)
            ELSE Outcome(r.store, "ok", None))

getitem(st, key) ==
    Gate(st, {key},
         IF gen_object_id(key) \in DOMAIN st
         THEN Outcome(st, "ok", st[gen_object_id(key)].value)
         ELSE Outcome(st, "ok", None))

Range(seq) == {seq[i] : i \in 1..Len(seq)}

\* __delitem__(keys): arg.isList tells a list from a scalar key
delitem(st, arg) ==
    IF ~_connected THEN Outcome(st, "ConnectionError", None)
    ELSE IF ~arg.isList THEN Outcome(st, "TypeError", None)
    ELSE Gate(st, Range(arg.keys),
              Outcome(client_delete(st, {gen_object_id(k) : k \in Range(arg.keys)}),
                      "ok", None))

contains(st, key) ==
    Gate(st, {key}, Outcome(st, "ok", gen_object_id(key) \in DOMAIN st))

replace_item(st, key, value) ==
    Gate(st, {key},
         LET deleted == client_delete(st, {gen_object_id(key)})
             r == client_put(deleted, key, value, gen_object_id(key))
         IN IF r.res = "PlasmaStoreFull" THEN Outcome(deleted, StoreFull, None)
            ELSE Outcome(r.store, "ok", None))

\* variant of delete that hands its argument to __delitem__ as it is
delete_keys_unwrapped(st, arg) == delitem(st, arg)

\* delete(keys): a list goes to __delitem__ as it is, anything else is wrapped
delete_keys(st, arg) ==
    IF arg.isList THEN delitem(st, arg)
    ELSE delitem(st, [isList |-> TRUE, keys |-> arg.keys])

\* get_multi(keys): local_dict[key] = self[key] for each key in turn; the
\* first failing lookup ends the call
RECURSIVE get_multi_from(_, _, _, _)
get_multi_from(st, ks, i, dict) ==
    IF i > Len(ks) THEN Outcome(st, "ok", dict)
    ELSE LET r == getitem(st, ks[i])
         IN IF r.res # "ok" THEN Outcome(st, r.res, None)
            ELSE get_multi_from(st, ks, i + 1,
                     [k \in DOMAIN dict \cup {ks[i]} |->
                         IF k = ks[i] THEN r.ret ELSE dict[k]])

get_multi(st, ks) == get_multi_from(st, ks, 1, <<>>)

\* set_multi(keys, values): the length check, then self[key] = value for
\* each pair in turn; the first failing assignment ends the call
RECURSIVE set_multi_from(_, _, _, _)
set_multi_from(st, ks, vs, i) ==
    IF i > Len(ks) \/ i > Len(vs) THEN Outcome(st, "ok", None)
    ELSE LET r == setitem(st, ks[i], vs[i])
         IN IF r.res # "ok" THEN r
            ELSE set_multi_from(r.store, ks, vs, i + 1)

\* variant of set_multi that compares the lengths after the assignments
set_multi_check_after(st, ks, vs) ==
    LET r == set_multi_from(st, ks, vs, 1)
    IN IF r.res = "ok" /\ Len(ks) # Len(vs) THEN Outcome(r.store, LengthMismatch, None)
       ELSE r

set_multi(st, ks, vs) ==
    IF Len(ks) # Len(vs) THEN Outcome(st, LengthMismatch, None)
    ELSE set_multi_from(st, ks, vs, 1)

len_store(st) == Gate(st, {}, Outcome(st, "ok", Cardinality(DOMAIN st)))

keys_list(st) ==
    Gate(st, {}, Outcome(st, "ok", [i \in 1..Len(StoredPairs(st)) |-> StoredPairs(st)[i].key]))

values_list(st) ==
    Gate(st, {}, Outcome(st, "ok", [i \in 1..Len(StoredPairs(st)) |-> StoredPairs(st)[i].value]))

get_object_ids(st) == Gate(st, {}, Outcome(st, "ok", ListOrder(DOMAIN st)))

\* what the memory queries hand back: an int, or the str format_size makes
\* (values as the keys are written: type, text, num)
PyInt(n) == [type |-> "int", text |-> <<>>, num |-> n]

PyStr(text) == [type |-> "str", text |-> text, num |-> 0]

\* humanfriendly.format_size(n) for the sizes below 1000 bytes: the decimal
\* number followed by " byte" or " bytes"
format_size(n) ==
    PyStr(IntToStr(n) \o (IF n = 1 THEN <<32, 98, 121, 116, 101>>
                                   ELSE <<32, 98, 121, 116, 101, 115>>))

get_used_memory(st, human_readable) ==
    Gate(st, {}, Outcome(st, "ok", IF human_readable THEN format_size(Used(st))
                                                      ELSE PyInt(Used(st))))

\* client.store_capacity(): the -m argument the store process was started with
store_capacity == size

\* variant of get_available_memory that leaves the used memory out
get_available_memory_unsubtracted(st, human_readable) ==
    Gate(st, {}, Outcome(st, "ok", IF human_readable THEN format_size(store_capacity)
                                                      ELSE PyInt(store_capacity)))

get_available_memory(st, human_readable) ==
    Gate(st, {},
         LET capacity == store_capacity
             used == get_used_memory(st, FALSE).ret.num
         IN Outcome(st, "ok", IF human_readable THEN format_size(capacity - used)
                                                ELSE PyInt(capacity - used)))

get_store_capacity(st, human_readable) ==
    Gate(st, {}, Outcome(st, "ok", IF human_readable THEN format_size(store_capacity)
                                                      ELSE PyInt(store_capacity)))

\* __iter__ behind check_connected: the call passes the gate and hands back
\* a generator; nothing is read from the store before its first item is asked for
iter_call(st) ==
    IF ~_connected THEN Outcome(st, "ConnectionError", None)
    ELSE Outcome(st, "ok", "generator")

\* variant of the generator that looks the stored pairs up again at every
\* item instead of walking the list it fetched first
iter_next_live(g, st) ==
    IF ~ClientLive THEN [gen |-> NoGen, res |-> "IOError", ret |-> None]
    ELSE IF Len(g.yielded) >= Len(StoredPairs(st))
         THEN [gen |-> NoGen, res |-> "StopIteration", ret |-> None]
         ELSE LET pairs == StoredPairs(st)
                  item == pairs[Len(g.yielded) + 1]
              IN [gen |-> Generator("running", <<>>,
                                    SubSeq(pairs, Len(g.yielded) + 2, Len(pairs)),
                                    Append(g.yielded, item)),
                  res |-> "ok", ret |-> item]

\* the body of __iter__, run by next(): the first call lists the ids and
\* fetches all their objects (no gate: that was passed when __iter__ was
\* called), then and later one fetched pair is yielded per call
iter_next(g, st) ==
    IF g.state = "created"
    THEN IF ~ClientLive THEN [gen |-> NoGen, res |-> "IOError", ret |-> None]
         ELSE IF StoredPairs(st) = <<>>
              THEN [gen |-> NoGen, res |-> "StopIteration", ret |-> None]
              ELSE [gen |-> Generator("running", <<>>, Tail(StoredPairs(st)),
                                      <<StoredPairs(st)[1]>>),
                    res |-> "ok", ret |-> StoredPairs(st)[1]]
    ELSE IF g.items = <<>>
         THEN [gen |-> NoGen, res |-> "StopIteration", ret |-> None]
         ELSE [gen |-> Generator("running", <<>>, Tail(g.items),
                                 Append(g.yielded, Head(g.items))),
               res |-> "ok", ret |-> Head(g.items)]

(***************************************************************************)
(* The operations as actions                                               *)
(***************************************************************************)
\* a call that can only touch the objects of the store
DataOp(op, isList, ks, vs, r) ==
    /\ Idle
    /\ phase = "ready"
    /\ store' = r.store
    /\ last' = Call(op, isList, ks, vs, r.res, r.ret)
    /\ UNCHANGED <<phase, inst, procRunning, socketFile, attached, nextClient, link,
                   everCreated, socketDir, gen>>

SetItem(key, value) == DataOp("setitem", FALSE, <<key>>, <<value>>, setitem(store, key, value))

GetItem(key) == DataOp("getitem", FALSE, <<key>>, <<>>, getitem(store, key))

DelItem(arg) == DataOp("delitem", arg.isList, arg.keys, <<>>, delitem(store, arg))

Contains(key) == DataOp("contains", FALSE, <<key>>, <<>>, contains(store, key))

\* iter(store): a generator is handed back when the gate lets the call
\* through; keep = the caller holds on to it (in place of the one it held)
IterCall(keep) ==
    /\ Idle
    /\ phase = "ready"
    /\ last' = Call("iter", FALSE, <<>>, <<>>, iter_call(store).res, iter_call(store).ret)
    /\ gen' = IF keep /\ iter_call(store).res = "ok"
              THEN Generator("created", StoredPairs(store), <<>>, <<>>)
              ELSE gen
    /\ UNCHANGED <<phase, inst, proc, nextClient, link, everCreated, socketDir>>

Iter == IterCall(FALSE)

\* next(generator)
NextItem ==
    /\ Idle
    /\ phase = "ready"
    /\ gen.state \in {"created", "running"}
    /\ gen' = iter_next(gen, store).gen
    /\ last' = Call("next", FALSE, <<>>, <<>>, iter_next(gen, store).res,
                    iter_next(gen, store).ret)
    /\ UNCHANGED <<phase, inst, proc, nextClient, link, everCreated, socketDir>>

LenOp == DataOp("len", FALSE, <<>>, <<>>, len_store(store))

KeysOp == DataOp("keys", FALSE, <<>>, <<>>, keys_list(store))

ValuesOp == DataOp("values", FALSE, <<>>, <<>>, values_list(store))

Replace(key, value) == DataOp("replace", FALSE, <<key>>, <<value>>, replace_item(store, key, value))

Delete(arg) == DataOp("delete", arg.isList, arg.keys, <<>>, delete_keys(store, arg))

GetMulti(ks) == DataOp("get_multi", TRUE, ks, <<>>, get_multi(store, ks))

SetMulti(ks, vs) == DataOp("set_multi", TRUE, ks, vs, set_multi(store, ks, vs))

GetObjectIds == DataOp("get_object_ids", FALSE, <<>>, <<>>, get_object_ids(store))

GetAvailableMemory(h) ==
    DataOp("get_available_memory", h, <<>>, <<>>, get_available_memory(store, h))

GetUsedMemory(h) == DataOp("get_used_memory", h, <<>>, <<>>, get_used_memory(store, h))

GetStoreCapacity(h) == DataOp("get_store_capacity", h, <<>>, <<>>, get_store_capacity(store, h))

\* the caller takes the outcome of its call; the next call can be made
Return ==
    /\ ~Idle
    /\ last' = NoCall
    /\ UNCHANGED <<phase, inst, proc, nextClient, link, everCreated, socketDir, gen>>


\* what delete and __delitem__ are handed: a list of keys or one scalar key
DeleteArgs == {[isList |-> TRUE, keys |-> ks] : ks \in KeyLists} \cup
              {[isList |-> FALSE, keys |-> <<k>>] : k \in Keys}

Next ==
    \/ Idle /\ \E sizeArg \in SizeArgs, create \in BOOLEAN, started \in BOOLEAN :
                  Construct(sizeArg, create, started)
    \/ Idle /\ \E started \in BOOLEAN : create_plasma_store(started)
    \/ connect
    \/ Idle /\ \E detached \in BOOLEAN : disconnect(detached)
    \/ cleanup
    \/ ProcessDies
    \/ Idle /\ \E key \in Keys, value \in Values : SetItem(key, value)
    \/ Idle /\ \E key \in Keys : GetItem(key)
    \/ Idle /\ \E arg \in DeleteArgs : DelItem(arg)
    \/ Idle /\ \E key \in Keys : Contains(key)
    \/ Iter
    \/ LenOp
    \/ KeysOp
    \/ ValuesOp
    \/ Idle /\ \E key \in Keys, value \in Values : Replace(key, value)
    \/ Idle /\ \E arg \in DeleteArgs : Delete(arg)
    \/ Idle /\ \E ks \in KeyLists : GetMulti(ks)
    \/ Idle /\ \E ks \in KeyLists, vs \in ValueLists : SetMulti(ks, vs)
    \/ GetObjectIds
    \/ Idle /\ \E h \in BOOLEAN : GetAvailableMemory(h)
    \/ Idle /\ \E h \in BOOLEAN : GetUsedMemory(h)
    \/ Idle /\ \E h \in BOOLEAN : GetStoreCapacity(h)
    \/ RayConstruct
    \/ Idle /\ \E key \in Keys, value \in Values : RaySetItem(key, value)
    \/ Idle /\ \E key \in Keys : RayGetItem(key)
    \/ Idle /\ \E key \in Keys : RayDelItem(key)
    \/ Idle /\ \E ks \in KeyLists, vs \in ValueLists : RaySetMulti(ks, vs)
    \/ Return

Spec == Init /\ [][Next]_vars

\* iteration: the caller keeps the generators of __iter__ and asks them for
\* items between single-key operations and the life-cycle calls
NextIter ==
    \/ Idle /\ \E sizeArg \in SizeArgs, create \in BOOLEAN, started \in BOOLEAN :
                  Construct(sizeArg, create, started)
    \/ Idle /\ \E started \in BOOLEAN : create_plasma_store(started)
    \/ connect
    \/ Idle /\ \E detached \in BOOLEAN : disconnect(detached)
    \/ cleanup
    \/ ProcessDies
    \/ Idle /\ \E key \in Keys, value \in Values : SetItem(key, value)
    \/ Idle /\ \E key \in Keys : GetItem(key)
    \/ Idle /\ \E arg \in DeleteArgs : Delete(arg)
    \/ Idle /\ \E key \in Keys, value \in Values : Replace(key, value)
    \/ LenOp
    \/ IterCall(TRUE)
    \/ NextItem
    \/ Return

SpecIter == Init /\ [][NextIter]_vars

(***************************************************************************)
(* Properties                                                              *)
(***************************************************************************)
\* what a caller of get(key) sees of the store st: the value stored at the
\* key's ObjectID, None when nothing is stored there
StoredValue(st, key) ==
    IF ~HashRaises(key) /\ gen_object_id(key) \in DOMAIN st
    THEN st[gen_object_id(key)].value
    ELSE None

Present(st, key) == ~HashRaises(key) /\ gen_object_id(key) \in DOMAIN st

\* the keys gen_hash accepts
Supported == {k \in Keys : k.type \in {"str", "bytes", "int"}}

\* the operations behind check_connected
GuardedOps == {"setitem", "getitem", "delitem", "contains", "len", "iter", "keys",
               "values", "replace", "get_object_ids", "get_available_memory",
               "get_used_memory", "get_store_capacity", "disconnect"}

\* the instance is not connected: connect() was never called, the latest
\* connect() failed, or disconnect() succeeded since
NotConnected == link \in {"never", "failed", "disconnected"}

\* C1 (as claimed): while the instance is not connected (connect() never
\* called, connect() failed, or disconnect() succeeded), every guarded
\* operation fails with a ConnectionError and changes neither the store nor
\* the instance.
C1_NotConnectedOpsFail ==
    [][(NotConnected /\ last'.op \in GuardedOps)
          => (last'.res = "ConnectionError" /\ UNCHANGED <<phase, inst, proc, nextClient>>)]_vars

\* the object stored at key's ObjectID was written by a put of this very key
WrittenUnder(st, key) == Present(st, key) /\ st[gen_object_id(key)].key = key

\* C2 (as claimed): get(key) returns the value of the first put of key since
\* key was last absent: a put(key, v) that returns leaves get(key) at the
\* value of the earlier put of key when one is in effect, and makes it v
\* otherwise.
C2_FirstPutOfKeyWins ==
    [][(last'.op = "setitem" /\ last'.res = "ok")
          => IF WrittenUnder(store, last'.keys[1])
             THEN StoredValue(store', last'.keys[1]) = StoredValue(store, last'.keys[1])
             ELSE StoredValue(store', last'.keys[1]) = last'.vals[1]]_vars

\* C3 (as claimed): after replace(key, v) returns, get(key) returns v and
\* every other key's stored value is what it was.
C3_ReplaceOverwritesOnlyItsKey ==
    [][(last'.op = "replace" /\ last'.res = "ok")
          => /\ StoredValue(store', last'.keys[1]) = last'.vals[1]
             /\ \A k \in Keys \ {last'.keys[1]} :
                   StoredValue(store', k) = StoredValue(store, k)]_vars

\* C4 (as claimed): after delete(keys) with a list, every listed key is
\* absent and keys not in the list keep their values; get of an absent key
\* returns None without raising.
C4_DeleteRemovesOnlyListedKeys ==
    [][/\ (last'.op = "delete" /\ last'.isList /\ last'.res = "ok")
            => /\ \A k \in Range(last'.keys) : ~Present(store', k)
               /\ \A k \in Keys \ Range(last'.keys) :
                     StoredValue(store', k) = StoredValue(store, k)
       /\ (last'.op = "getitem" /\ _connected /\ ClientLive
              /\ last'.keys[1] \in Supported /\ ~Present(store, last'.keys[1]))
            => (last'.res = "ok" /\ last'.ret = None)]_vars

\* C5 (as claimed): the mapping get_multi(keys) returns has exactly the
\* requested keys that are stored as its keys.
C5_GetMultiOmitsAbsentKeys ==
    (last.op = "get_multi" /\ last.res = "ok")
        => DOMAIN last.ret = {k \in Range(last.keys) : Present(store, k)}

C7_DeleteRejectsScalar ==
    [][(last'.op \in {"delete", "delitem"} /\ ~last'.isList
           /\ _connected /\ Present(store, last'.keys[1]))
          => (last'.res = "TypeError" /\ store' = store)]_vars

\* C7 (amended): on a connected store __delitem__ rejects a scalar key with a
\* TypeError and removes nothing, while delete wraps a scalar key into a
\* one-element list: it removes the object at that key's ObjectID and
\* nothing else.
C7_OnlyDelitemRejectsScalar ==
    [][/\ (last'.op = "delitem" /\ ~last'.isList /\ _connected)
            => (last'.res = "TypeError" /\ store' = store)
       /\ (last'.op = "delete" /\ ~last'.isList /\ _connected /\ ClientLive
              /\ last'.keys[1] \in Supported)
            => /\ last'.res = "ok"
               /\ DOMAIN store' = DOMAIN store \ {gen_object_id(last'.keys[1])}
               /\ \A o \in DOMAIN store' : store'[o] = store[o]]_vars

\* C7 witness: delete was handed a scalar key on a connected store and
\* returned; the object of another key is still stored.
C7_Witness ==
    /\ last.op = "delete"
    /\ ~last.isList
    /\ last.res = "ok"
    /\ _connected
    /\ ClientLive
    /\ ~Present(store, last.keys[1])
    /\ DOMAIN store # {}

\* C8 (as claimed): when connect() fails on a created store, the process is
\* terminated, its handle cleared and its socket file removed, and the
\* instance is left not connected.
C8_FailedConnectLeavesNothing ==
    [][(last'.op = "connect" /\ last'.res = "ConnectionError" /\ __created)
          => /\ ~procRunning'
             /\ plasma_store_proc' = "None"
             /\ ~socketFile'
             /\ ~_connected']_vars

\* the state of the connection, read off the instance: no client yet,
\* gate open, or a client that was detached by disconnect()
ConnState ==
    IF _connected THEN "Connected"
    ELSE IF client = None THEN "Created" ELSE "Disconnected"

\* C9 (as claimed): the connection moves only Created -> Connected ->
\* Disconnected; once disconnected it is never connected again.
C9_DisconnectedIsTerminal ==
    [][\/ ConnState' = ConnState
       \/ (ConnState = "Created" /\ ConnState' = "Connected")
       \/ (ConnState = "Connected" /\ ConnState' = "Disconnected")]_vars

\* C9 (amended): the connection leaves Connected only by a disconnect() that
\* returns and enters it only by a connect() that returns; a connect() on a
\* disconnected instance whose store process is listening attaches a fresh
\* client and brings the instance back to Connected.
C9_ReconnectAllowed ==
    [][/\ (_connected /\ ~_connected') => (last'.op = "disconnect" /\ last'.res = "ok")
       /\ (~_connected /\ _connected') => (last'.op = "connect" /\ last'.res = "ok")
       /\ (ConnState = "Disconnected" /\ last'.op = "connect"
              /\ __created /\ procRunning /\ socketFile)
            => (last'.res = "ok" /\ _connected' /\ client' # client
                   /\ client' \in attached')]_vars

\* C9 witness: the instance is connected again, through a second client,
\* after its first client was detached.
C9_Witness ==
    /\ last.op = "connect"
    /\ last.res = "ok"
    /\ _connected
    /\ client = 2
    /\ attached = {2}

\* C10 (as claimed): an instance never has more than one client attached to
\* its store process.
C10_AtMostOneLiveClient == Cardinality(attached) <= 1

\* C11: create_plasma_store on an instance whose store process is already
\* created fails (RuntimeError, the configuration error of the source) and
\* changes nothing: the process keeps running with its objects and clients,
\* the socket file stays, the created and connected flags keep their values.
C11_DoubleCreateChangesNothing ==
    [][(__created /\ last'.op = "create_plasma_store")
          => (last'.res = "RuntimeError" /\ UNCHANGED <<phase, inst, proc, nextClient>>)]_vars

\* C11 witness: a second create was refused on a connected instance whose
\* store process is running and holds an object.
C11_Witness ==
    /\ last.op = "create_plasma_store"
    /\ last.res = "RuntimeError"
    /\ __created /\ _connected /\ procRunning /\ socketFile
    /\ DOMAIN store # {}

\* C12 (as claimed): at most one create ever succeeds on an instance: once a
\* store process has been created for it, no later create succeeds, not even
\* after cleanup().
C12_SingleCreatePerInstance ==
    [][(everCreated /\ last'.op = "create_plasma_store") => last'.res # "ok"]_vars

\* C12 (amended): an instance has at most one created store process at a
\* time: create succeeds exactly when the created flag is clear and the new
\* process starts, and then no earlier process of the instance is running; a
\* successful cleanup() clears the created flag, so the instance can create
\* again afterwards.
C12_CreateOnlyWhenNotCreated ==
    [][/\ (last'.op = "create_plasma_store"
            => (last'.res = "ok" <=> (~__created /\ procRunning')))
       /\ ((last'.op = "create_plasma_store" /\ last'.res = "ok")
            => (~procRunning /\ __created' /\ plasma_store_proc' = "Popen"))
       /\ ((last'.op = "cleanup" /\ last'.res = "ok") => ~__created')]_vars

\* C12 witness: an instance that was created, connected, disconnected and
\* cleaned up has created a store process again.
C12_Witness ==
    /\ last.op = "create_plasma_store"
    /\ last.res = "ok"
    /\ link = "disconnected"
    /\ __created /\ procRunning

\* C13: cleanup() on an instance with a created store process ends with the
\* process exited, the process handle cleared and the socket file absent;
\* cleanup() on an instance without a created process (never created, or
\* already cleaned up) fails (RuntimeError, the state error of the source)
\* and changes no state.
C13_CleanupTerminatesOrRefuses ==
    [][(last'.op = "cleanup")
          => IF __created
             THEN /\ last'.res = "ok"
                  /\ ~procRunning' /\ plasma_store_proc' = "None" /\ ~socketFile'
             ELSE /\ last'.res = "RuntimeError"
                  /\ UNCHANGED <<phase, inst, proc, nextClient>>]_vars

\* C13 witness: a second cleanup() was refused on an instance that had been
\* created, used and cleaned up.
C13_Witness ==
    /\ last.op = "cleanup"
    /\ last.res = "RuntimeError"
    /\ everCreated /\ ~__created
    /\ link = "disconnected"
    /\ ~procRunning /\ plasma_store_proc = "None" /\ ~socketFile

\* C14 (as claimed): constructing a store with a size greater than the
\* available shared memory fails (ValueError, the configuration error of the
\* source) and creates nothing: no store process is started or left running,
\* and no socket file or socket directory is created or removed.
C14_OversizeConstructCreatesNothing ==
    [][(last'.op = "init" /\ last'.isList /\ last'.vals[1] > AvailShm)
          => /\ last'.res = "ValueError"
             /\ ~procRunning'
             /\ UNCHANGED <<procRunning, socketFile, socketDir>>]_vars

\* C15 (as claimed): the capacity the store process is given equals the
\* requested size for every given size with 0 <= size <= available shared
\* memory (0 and the available amount included) and is floor(70% of the
\* available shared memory) only when the size is omitted; hence it never
\* exceeds the available shared memory, a deferred create included.
C15_CapacityIsRequestedSize ==
    [][/\ (last'.op = "init" /\ last'.res = "ok")
            => /\ size' = IF last'.isList THEN last'.vals[1] ELSE (AvailShm * 70) \div 100
               /\ size' <= AvailShm
       /\ (last'.op = "create_plasma_store" /\ last'.res = "ok") => size' <= AvailShm]_vars

\* the store process cannot take the object put(key, value) would store: the
\* key's ObjectID is free and the object does not fit into what is left
LacksCapacity(st, key, value) ==
    /\ ~HashRaises(key)
    /\ gen_object_id(key) \notin DOMAIN st
    /\ Used(st) + ObjSize(Obj(key, value)) > store_capacity

\* C16: a put attempted on a connected store that lacks the capacity for it
\* fails with the store-full error (ValueError), and a put that fails so
\* writes nothing: the stored keys, every stored value and the used memory
\* are what they were before the call.
C16_FullStorePutWritesNothing ==
    [][(last'.op = "setitem")
          => /\ (_connected /\ ClientLive
                   /\ LacksCapacity(store, last'.keys[1], last'.vals[1]))
                 => last'.res = StoreFull
             /\ (last'.res = StoreFull)
                 => /\ store' = store
                    /\ Used(store') = Used(store)
                    /\ UNCHANGED <<phase, inst, proc, nextClient>>]_vars

\* C16 witness: a put was refused for lack of capacity while another object
\* is stored.
C16_Witness ==
    /\ last.op = "setitem"
    /\ last.res = StoreFull
    /\ DOMAIN store # {}
    /\ LacksCapacity(store, last.keys[1], last.vals[1])

\* the whole sequence of a generator: what it has handed out and what it
\* still holds
Planned(g) == g.yielded \o g.items

\* C17 (as claimed): the pairs a generator of iterate() produces are exactly
\* those stored at the moment iterate() was called, whatever is put, deleted
\* or replaced between the call and the consumption of the sequence.
C17_SnapshotAtCall ==
    [][(last'.op = "next" /\ last'.res \in {"ok", "StopIteration"})
          => IF gen.state = "created"
             THEN Planned(gen') = gen.atCall
             ELSE last'.res = "ok" => Planned(gen') = Planned(gen)]_vars

\* C17 (amended): iterate() reads nothing when it is called; the snapshot is
\* taken when the first item is requested.  With the client still attached
\* that request fetches the pairs stored at that moment, otherwise it fails
\* and the sequence is over; every later request hands out the next fetched
\* pair, whatever has been put, deleted or replaced meanwhile, and the
\* sequence ends after the last one; no other call touches a generator, and
\* another iterate() call starts a new sequence with a snapshot of its own.
C17_SnapshotAtFirstRequest ==
    [][/\ (last'.op = "next" /\ gen.state = "created")
            => IF ~ClientLive THEN last'.res = "IOError" /\ gen' = NoGen
               ELSE IF StoredPairs(store) = <<>>
                    THEN last'.res = "StopIteration" /\ gen' = NoGen
                    ELSE /\ last'.res = "ok"
                         /\ last'.ret = StoredPairs(store)[1]
                         /\ gen'.yielded = <<last'.ret>>
                         /\ Planned(gen') = StoredPairs(store)
       /\ (last'.op = "next" /\ gen.state = "running")
            => IF gen.items = <<>>
               THEN last'.res = "StopIteration" /\ gen' = NoGen
               ELSE /\ last'.res = "ok"
                    /\ last'.ret = Head(gen.items)
                    /\ gen'.yielded = Append(gen.yielded, last'.ret)
                    /\ Planned(gen') = Planned(gen)
       /\ (last'.op \notin {"next", "iter"}) => gen' = gen
       /\ (last'.op = "iter" /\ last'.res = "ok")
            => gen' = Generator("created", StoredPairs(store), <<>>, <<>>)]_vars

\* C17 witness: a generator has handed out its second pair after the store
\* was changed under it.
C17_Witness ==
    /\ last.op = "next"
    /\ last.res = "ok"
    /\ gen.state = "running"
    /\ Len(gen.yielded) = 2
    /\ StoredPairs(store) # Planned(gen)

\* C18 (as claimed): two accepted keys get the same ObjectID if and only if
\* they are equal in type and value, so a put under one key changes neither
\* get nor contains of any other key.
C18_ObjectIdTellsKeysApart ==
    [][(last'.op = "setitem" /\ last'.res = "ok")
          => \A k \in Supported :
                /\ (gen_object_id(k) = gen_object_id(last'.keys[1])) <=> (k = last'.keys[1])
                /\ (k # last'.keys[1])
                     => /\ StoredValue(store', k) = StoredValue(store, k)
                        /\ Present(store', k) = Present(store, k)]_vars

\* the calls that hash the keys they are given (delete and __delitem__ when
\* handed a list, set_multi when handed as many values as keys)
HashesItsKeys(call) ==
    \/ call.op \in {"setitem", "getitem", "contains", "replace", "get_multi"}
    \/ call.op \in {"delitem", "delete"} /\ call.isList
    \/ call.op = "set_multi" /\ Len(call.keys) = Len(call.vals)

\* C19 (as claimed): an operation on a connected store that is given a key
\* which is not a str, bytes or int fails with a TypeError and leaves the
\* store as it was.
C19_UnsupportedKeyIsTypeError ==
    [][(_connected /\ HashesItsKeys(last')
          /\ \E i \in 1..Len(last'.keys) : HashRaises(last'.keys[i]))
          => (last'.res = "TypeError" /\ store' = store)]_vars

\* C20 (as claimed): on an instance that is not connected, get_multi,
\* set_multi and delete fail with a ConnectionError for every argument,
\* empty lists and lists of different lengths included.
C20_GateFirstInBatchOps ==
    [][(~_connected /\ last'.op \in {"get_multi", "set_multi", "delete"})
          => last'.res = "ConnectionError"]_vars

\* the calls of the three memory queries
MemoryQueries == {"get_used_memory", "get_store_capacity", "get_available_memory"}

\* the byte count a memory query is about, in the store st
ByteCount(op, st) ==
    IF op = "get_used_memory" THEN Used(st)
    ELSE IF op = "get_store_capacity" THEN store_capacity
    ELSE store_capacity - Used(st)

\* C21: on a connected store, after any puts, deletes and replaces, the
\* queries that return byte counts (human_readable=False; the text form is
\* format_size of the same count) agree with the store: used memory is the
\* sum of the sizes of the objects listed, the store capacity is the
\* capacity configured at creation, available memory is the capacity minus
\* the used memory, and 0 <= used memory <= store capacity.  No query
\* changes the store.
C21_MemoryQueriesAgree ==
    [][(last'.op \in MemoryQueries /\ last'.res = "ok")
          => /\ last'.ret = IF last'.isList THEN format_size(ByteCount(last'.op, store))
                                            ELSE PyInt(ByteCount(last'.op, store))
             /\ 0 <= Used(store) /\ Used(store) <= store_capacity
             /\ store_capacity = size
             /\ store' = store]_vars

\* C21 witness: the available memory was asked for as a number on a store
\* that holds two objects and has no room left.
C21_Witness ==
    /\ last.op = "get_available_memory"
    /\ last.res = "ok"
    /\ ~last.isList
    /\ Cardinality(DOMAIN store) = 2
    /\ last.ret = PyInt(0)

\* C22: an instance that passes the connected gate has a created backing
\* process (the created flag set and the process handle present); no
\* create, connect, disconnect and cleanup leave it connected while
\* cleanup() has terminated the process.
C22_ConnectedImpliesCreated ==
    _connected => (__created /\ plasma_store_proc = "Popen")

\* C23: replace(key, value) deletes and then puts, without rollback: when
\* the put fails because the store is full, key is absent afterwards and
\* every other key has the value it had before the call.
C23_FailedReplaceDropsOnlyItsKey ==
    [][(last'.op = "replace" /\ last'.res = StoreFull)
          => /\ ~Present(store', last'.keys[1])
             /\ \A k \in Supported \ {last'.keys[1]} :
                    StoredValue(store', k) = StoredValue(store, k)]_vars

====
